---- MODULE Spec2Model ----
(***************************************************************************)
(* Model of src/src/lpinstance.py: the instance-file parser getLPInstance  *)
(* and the LP formulator LPSolver (constructor and solve).                 *)
(*                                                                         *)
(* A file is a readable flag and a sequence of lines; a line is the        *)
(* sequence of its whitespace-separated tokens (what str.split() yields);  *)
(* a token is a sequence of characters.  Numbers are exact rationals       *)
(* (integer numerators over explicit divisors), so the optimum of the LP   *)
(* is computed without rounding.                                           *)
(***************************************************************************)
EXTENDS Integers, Sequences, FiniteSets, TLC

VARIABLES file, parseResult, constructed, lpinst, model, results, solverCalls, zeroDivs

vars == <<file, parseResult, constructed, lpinst, model, results, solverCalls, zeroDivs>>

(***************************************************************************)
(* Bounds                                                                  *)
(***************************************************************************)
\* number of solve() calls made on one LPSolver object
MaxSolves == 2

(***************************************************************************)
(* Arithmetic helpers                                                      *)
(***************************************************************************)
Abs(n) == IF n < 0 THEN -n ELSE n

RECURSIVE Gcd(_, _)
Gcd(a, b) == IF b = 0 THEN a ELSE Gcd(b, a % b)

Lcm(a, b) == (a * b) \div Gcd(a, b)

RECURSIVE LcmSet(_)
LcmSet(S) == IF S = {} THEN 1
             ELSE LET n == CHOOSE m \in S : TRUE
                  IN  Lcm(n, LcmSet(S \ {n}))

RECURSIVE SumSeq(_)
SumSeq(s) == IF s = <<>> THEN 0 ELSE Head(s) + SumSeq(Tail(s))

Min2(a, b) == IF a <= b THEN a ELSE b

\* a rational in lowest terms with a positive denominator
Rat(n, d) == LET g == Gcd(Abs(n), Abs(d))
                 s == IF d < 0 THEN -1 ELSE 1
             IN  [tag |-> "value", num |-> (s * n) \div g, den |-> (s * d) \div g]

(***************************************************************************)
(* Tokens and their conversions (int(), float())                           *)
(***************************************************************************)
Digits == <<"0", "1", "2", "3", "4", "5", "6", "7", "8", "9">>

IsDigit(ch) == \E i \in 1..10 : Digits[i] = ch

DigitVal(ch) == (CHOOSE i \in 1..10 : Digits[i] = ch) - 1

\* int(tok) / float(tok) succeed on a non-empty string of decimal digits
\* and raise ValueError on a token containing a letter
IsNumeric(tok) == Len(tok) > 0 /\ \A i \in 1..Len(tok) : IsDigit(tok[i])

RECURSIVE TokVal(_)
TokVal(tok) == IF tok = <<>> THEN 0
               ELSE 10 * TokVal(SubSeq(tok, 1, Len(tok) - 1)) + DigitVal(tok[Len(tok)])

AllNumeric(line) == \A i \in 1..Len(line) : IsNumeric(line[i])

\* [float(i) for i in line.split()]
FloatList(line) == [i \in 1..Len(line) |-> TokVal(line[i])]

\* the decimal text of a natural number below 1000
NumTok(n) == IF n < 10 THEN <<Digits[n + 1]>>
             ELSE IF n < 100 THEN <<Digits[(n \div 10) + 1], Digits[(n % 10) + 1]>>
             ELSE <<Digits[(n \div 100) + 1], Digits[((n \div 10) % 10) + 1], Digits[(n % 10) + 1]>>

NumLine(s) == [i \in 1..Len(s) |-> NumTok(s[i])]

(***************************************************************************)
(* LPInstance and getLPInstance                                            *)
(***************************************************************************)
None == [tag |-> "None"]

\* dataclass LPInstance
LPInstance(nc, nf, alloc, dem, open, cap, nveh, lim, use, dist) ==
  [tag |-> "LPInstance",
   numCustomers |-> nc, numFacilities |-> nf,
   allocCostCF |-> alloc, demandC |-> dem, openingCostF |-> open,
   capacityF |-> cap, numMaxVehiclePerFacility |-> nveh,
   truckDistLimit |-> lim, truckUsageCost |-> use, distanceCF |-> dist]

\* fl.readline().split(): past the end of the file readline() yields "",
\* whose split() is the empty list
ReadLine(f, n) == IF n <= Len(f.lines) THEN f.lines[n] ELSE <<>>

\* flat position of element (i, j), 0-based, reached by the running index
\* of the nested loops "for i in range(numCustomers): for j in
\* range(numFacilities): ... index += 1"
FlatIndexBad(i, j, nc, nf) == i * nc + j

FlatIndex(i, j, nc, nf) == i * nf + j

\* np.zeros((nc, nf)) filled from raw by the nested loops; m[c][f], 1-based
FillMatrix(raw, nc, nf) ==
  [c \in 1..nc |-> [f \in 1..nf |-> raw[FlatIndex(c - 1, f - 1, nc, nf) + 1]]]

\* the loops raise IndexError when raw runs out before nc*nf cells are set
FillRaises(raw, nc, nf) ==
  \E c \in 1..nc, f \in 1..nf : FlatIndex(c - 1, f - 1, nc, nf) + 1 > Len(raw)

\* the value the except clause yields
OnExceptionBad(partial) == partial

OnException(partial) == None

getLPInstance(f) ==
  IF ~f.readable THEN OnException([tag |-> "LPInstance"])
  ELSE
  LET l1 == ReadLine(f, 1)
      l2 == ReadLine(f, 2)
      l3 == ReadLine(f, 3)
      l4 == ReadLine(f, 4)
      l5 == ReadLine(f, 5)
      l6 == ReadLine(f, 6)
      l7 == ReadLine(f, 7)
  IN
  IF ~AllNumeric(l1) \/ Len(l1) # 2 THEN OnException([tag |-> "LPInstance"])
  ELSE
  LET nc == TokVal(l1[1])
      nf == TokVal(l1[2])
      p1 == [tag |-> "LPInstance", numCustomers |-> nc, numFacilities |-> nf,
             numMaxVehiclePerFacility |-> nc]
  IN
  IF ~AllNumeric(l2) THEN OnException(p1)
  ELSE IF FillRaises(FloatList(l2), nc, nf) THEN OnException(p1)
  ELSE
  LET alloc == FillMatrix(FloatList(l2), nc, nf)
      p2 == [tag |-> "LPInstance", numCustomers |-> nc, numFacilities |-> nf,
             numMaxVehiclePerFacility |-> nc, allocCostCF |-> alloc]
  IN
  IF ~AllNumeric(l3) \/ ~AllNumeric(l4) \/ ~AllNumeric(l5) THEN OnException(p2)
  ELSE
  LET p5 == [tag |-> "LPInstance", numCustomers |-> nc, numFacilities |-> nf,
             numMaxVehiclePerFacility |-> nc, allocCostCF |-> alloc,
             demandC |-> FloatList(l3), openingCostF |-> FloatList(l4),
             capacityF |-> FloatList(l5)]
  IN
  IF ~AllNumeric(l6) \/ Len(l6) # 2 THEN OnException(p5)
  ELSE IF ~AllNumeric(l7) THEN OnException(p5)
  ELSE IF FillRaises(FloatList(l7), nc, nf) THEN OnException(p5)
  ELSE LPInstance(nc, nf, alloc, FloatList(l3), FloatList(l4), FloatList(l5),
                  nc, TokVal(l6[1]), TokVal(l6[2]),
                  FillMatrix(FloatList(l7), nc, nf))

(***************************************************************************)
(* The docplex Model held by an LPSolver                                   *)
(*                                                                         *)
(* vars      : one [lb, ub] record per variable, in creation order         *)
(* cts       : linear constraints  (sum coef*var) / div  sense  rhs        *)
(* objective : terms  mult * (sum coef*var) / div, minimised               *)
(***************************************************************************)
\* Model()
NewModel == [vars |-> <<>>, cts |-> <<>>, objective |-> <<>>]

Raised(exc) == [tag |-> "raise", exc |-> exc]

\* the "no solution" return value of solve, the number -1
NoSolution == Rat(-1, 1)

\* continuous_var_list(numCustomers, 0, 1) called once per facility:
\* x[f][c] is the c-th variable of the f-th list created by this call
XVar(base, f, c, nc) == base + (f - 1) * nc + c

XList(base, f, nc) == [c \in 1..nc |-> XVar(base, f, c, nc)]

NewVars(inst) ==
  [i \in 1..(inst.numFacilities * inst.numCustomers) |-> [lb |-> 0, ub |-> 1]]

\* scal_prod(terms, coefs) pairs terms with coefficients up to the shorter one
ScalProd(terms, coefs) ==
  [i \in 1..Min2(Len(terms), Len(coefs)) |-> <<terms[i], coefs[i]>>]

\* distanceCF[:, f] and allocCostCF[:, f]
Column(m, f, nc) == [c \in 1..nc |-> m[c][f]]

\* sum(x[f][c] for f in range(numFacilities)) == 1, one per customer
CoverageCts(inst, base) ==
  [c \in 1..inst.numCustomers |->
     [terms |-> [f \in 1..inst.numFacilities |->
                    <<XVar(base, f, c, inst.numCustomers), 1>>],
      div |-> 1, sense |-> "eq", rhs |-> 1, name |-> "coverage"]]

\* scal_prod(x[f], demandC) <= capacityF[f]
CapacityCtBad(inst, base, f) ==
  [terms |-> [c \in 1..inst.numCustomers |-> <<XVar(base, f, c, inst.numCustomers), 1>>],
   div |-> 1, sense |-> "le", rhs |-> inst.capacityF[f], name |-> "capacity"]

CapacityCt(inst, base, f) ==
  [terms |-> ScalProd(XList(base, f, inst.numCustomers), inst.demandC),
   div |-> 1, sense |-> "le", rhs |-> inst.capacityF[f], name |-> "capacity"]

\* scal_prod(x[f], distanceCF[:,f]) / truckDistLimit <= numMaxVehiclePerFacility
TruckCt(inst, base, f) ==
  [terms |-> ScalProd(XList(base, f, inst.numCustomers),
                      Column(inst.distanceCF, f, inst.numCustomers)),
   div |-> inst.truckDistLimit, sense |-> "le",
   rhs |-> inst.numMaxVehiclePerFacility, name |-> "truck"]

\* the three sums of total_cost, one term of each per facility
OpeningTermBad(inst, base, f) ==
  [mult |-> inst.openingCostF[f],
   terms |-> ScalProd(XList(base, f, inst.numCustomers), inst.demandC),
   div |-> 1]

OpeningTerm(inst, base, f) ==
  [mult |-> inst.openingCostF[f],
   terms |-> ScalProd(XList(base, f, inst.numCustomers), inst.demandC),
   div |-> inst.capacityF[f]]

AllocTermBad(inst, base, f) ==
  [mult |-> 0,
   terms |-> ScalProd(XList(base, f, inst.numCustomers),
                      Column(inst.allocCostCF, f, inst.numCustomers)),
   div |-> 1]

AllocTerm(inst, base, f) ==
  [mult |-> 1,
   terms |-> ScalProd(XList(base, f, inst.numCustomers),
                      Column(inst.allocCostCF, f, inst.numCustomers)),
   div |-> 1]

TruckTerm(inst, base, f) ==
  [mult |-> inst.truckUsageCost,
   terms |-> ScalProd(XList(base, f, inst.numCustomers),
                      Column(inst.distanceCF, f, inst.numCustomers)),
   div |-> inst.truckDistLimit]

TotalCost(inst, base) ==
  [f \in 1..inst.numFacilities |-> OpeningTerm(inst, base, f)]
  \o [f \in 1..inst.numFacilities |-> AllocTerm(inst, base, f)]
  \o [f \in 1..inst.numFacilities |-> TruckTerm(inst, base, f)]

\* self.model.minimize(total_cost): the objective of the model becomes the
\* total_cost expression of the current call
RECURSIVE MinimizeBad(_, _)
MinimizeBad(inst, base) ==
  IF base <= 0 THEN TotalCost(inst, 0)
  ELSE MinimizeBad(inst, base - inst.numFacilities * inst.numCustomers)
       \o TotalCost(inst, base)

Minimize(inst, base) == TotalCost(inst, base)

(***************************************************************************)
(* Model.solve(): the external LP solver, as the exact optimum of the      *)
(* submitted model.                                                        *)
(*                                                                         *)
(* Variables that share no constraint are independent, so the model is     *)
(* feasible iff each connected component of variables is, and its minimum  *)
(* is the sum of the components' minima.  Within a component the search    *)
(* runs over assignments whose values are multiples of 1/D.  All variables *)
(* are bounded, so a feasible model attains its minimum at a vertex, and   *)
(* D (GridDen) is a common multiple of the determinants that can occur as  *)
(* the denominator of a vertex: the grid holds every vertex.               *)
(***************************************************************************)
Support(ct) == {ct.terms[i][1] : i \in DOMAIN ct.terms}

RECURSIVE Closure(_, _)
Closure(mdl, S) ==
  LET T == S \cup UNION {Support(mdl.cts[i]) :
                           i \in {j \in DOMAIN mdl.cts : Support(mdl.cts[j]) \cap S # {}}}
  IN  IF T = S THEN S ELSE Closure(mdl, T)

Components(mdl) == {Closure(mdl, {v}) : v \in DOMAIN mdl.vars}

\* sum of coef * a[var] over the terms whose variable is assigned by a
RECURSIVE Dot(_, _)
Dot(terms, a) ==
  IF terms = <<>> THEN 0
  ELSE (IF Head(terms)[1] \in DOMAIN a THEN Head(terms)[2] * a[Head(terms)[1]] ELSE 0)
       + Dot(Tail(terms), a)

\* a assigns numerators over D; the constraint's divisor is positive
CtHolds(ct, a, D) ==
  IF ct.sense = "eq" THEN Dot(ct.terms, a) = ct.rhs * ct.div * D
  ELSE Dot(ct.terms, a) <= ct.rhs * ct.div * D

FeasibleOn(mdl, comp, D) ==
  {a \in [comp -> 0..D] :
     /\ \A v \in comp : mdl.vars[v].lb * D <= a[v] /\ a[v] <= mdl.vars[v].ub * D
     /\ \A i \in DOMAIN mdl.cts :
          Support(mdl.cts[i]) \cap comp # {} => CtHolds(mdl.cts[i], a, D)}

ObjDen(mdl) == LcmSet({mdl.objective[i].div : i \in DOMAIN mdl.objective})

\* objective numerator over ObjDen(mdl) * D of the part of the objective on a
RECURSIVE ObjNum(_, _, _)
ObjNum(objective, a, den) ==
  IF objective = <<>> THEN 0
  ELSE Head(objective).mult * Dot(Head(objective).terms, a) * (den \div Head(objective).div)
       + ObjNum(Tail(objective), a, den)

SetMin(S) == CHOOSE m \in S : \A n \in S : m <= n

CompMin(mdl, comp, D) ==
  SetMin({ObjNum(mdl.objective, a, ObjDen(mdl)) : a \in FeasibleOn(mdl, comp, D)})

RECURSIVE SumMin(_, _, _)
SumMin(mdl, comps, D) ==
  IF comps = {} THEN 0
  ELSE LET comp == CHOOSE k \in comps : TRUE
       IN  CompMin(mdl, comp, D) + SumMin(mdl, comps \ {comp}, D)

\* constraints over no variable at all must hold as they stand
ConstantCtsHold(mdl) ==
  \A i \in DOMAIN mdl.cts :
     Support(mdl.cts[i]) = {} => CtHolds(mdl.cts[i], <<>>, 1)

ModelFeasible(mdl, D) ==
  /\ ConstantCtsHold(mdl)
  /\ \A comp \in Components(mdl) : FeasibleOn(mdl, comp, D) # {}

\* model.objective_value after a successful solve
ObjectiveValue(mdl, D) == Rat(SumMin(mdl, Components(mdl), D), ObjDen(mdl) * D)

\* the optimal assignments of the variables of one component
Optimal(mdl, comp, D) ==
  {a \in FeasibleOn(mdl, comp, D) :
     ObjNum(mdl.objective, a, ObjDen(mdl)) = CompMin(mdl, comp, D)}

(***************************************************************************)
(* Grid denominator of an instance with at most two customers and at most  *)
(* two facilities.  Coverage leaves one free fraction per customer         *)
(* (x[2][c] = 1 - x[1][c]); the remaining rows are the unit rows, the      *)
(* demand row and one distance row per facility, with integer right-hand   *)
(* sides, so a vertex has coordinates (integer / determinant of a square   *)
(* choice of rows).                                                        *)
(***************************************************************************)
DemandRow(inst) ==
  [c \in 1..inst.numCustomers |->
     IF c <= Len(inst.demandC) THEN inst.demandC[c] ELSE 0]

GridRows(inst) ==
  {[c \in 1..inst.numCustomers |-> IF c = k THEN 1 ELSE 0] : k \in 1..inst.numCustomers}
  \cup {DemandRow(inst)}
  \cup {Column(inst.distanceCF, f, inst.numCustomers) : f \in 1..inst.numFacilities}

Det(r, s) == IF Len(r) = 1 THEN r[1] ELSE r[1] * s[2] - r[2] * s[1]

GridDen(inst) ==
  LcmSet({Abs(Det(r, s)) : r \in GridRows(inst), s \in GridRows(inst)} \ {0})

(***************************************************************************)
(* LPSolver.solve                                                          *)
(***************************************************************************)
\* solve on an LPSolver whose lpinst is None: the attribute access
\* self.lpinst.numCustomers of the first statement raises
SolveOnNoneBad(mdl) ==
  [model |-> mdl, outcomes |-> {NoSolution}, called |-> TRUE, zdiv |-> FALSE]

SolveOnNone(mdl) ==
  [model |-> mdl, outcomes |-> {Raised("AttributeError")},
   called |-> FALSE, zdiv |-> FALSE]

\* what a division of a docplex expression by a zero numpy scalar leads to
\* is decided outside this code: the fault propagates, or the expression
\* carries a non-finite coefficient into the solver
ZeroDivOutcomes ==
  {Raised("ZeroDivisionError"), Raised("DOcplexException"), [tag |-> "nan"], NoSolution}

\* "if sol := self.model.solve(): return self.model.objective_value
\*  else: return -1"
SolveReturn(mdl, D) ==
  IF ModelFeasible(mdl, D) THEN ObjectiveValue(mdl, D) ELSE NoSolution

\* the facilities for which building the opening-cost term fails
OpeningFails(inst) ==
  {f \in 1..inst.numFacilities :
     f > Len(inst.openingCostF) \/ inst.capacityF[f] = 0}

SolveRun(inst, mdl) ==
  IF inst = None THEN SolveOnNone(mdl)
  ELSE
  LET base == Len(mdl.vars)
      nf   == inst.numFacilities
      ncap == Min2(nf, Len(inst.capacityF))
      m1 == [mdl EXCEPT !.vars = @ \o NewVars(inst),
                        !.cts = @ \o CoverageCts(inst, base)]
      m2 == [m1 EXCEPT !.cts = @ \o [f \in 1..ncap |-> CapacityCt(inst, base, f)]]
      m3 == [m2 EXCEPT !.cts = @ \o [f \in 1..nf |-> TruckCt(inst, base, f)]]
      m4 == [m3 EXCEPT !.objective = Minimize(inst, base)]
  IN
  IF ncap < nf
    THEN \* capacityF[f] raises IndexError
         [model |-> m2, outcomes |-> {Raised("IndexError")},
          called |-> FALSE, zdiv |-> FALSE]
  ELSE IF nf >= 1 /\ inst.truckDistLimit = 0
    THEN [model |-> m2, outcomes |-> ZeroDivOutcomes, called |-> FALSE, zdiv |-> TRUE]
  ELSE IF OpeningFails(inst) # {}
    THEN LET f == SetMin(OpeningFails(inst))
         IN  IF f > Len(inst.openingCostF)
               THEN [model |-> m3, outcomes |-> {Raised("IndexError")},
                     called |-> FALSE, zdiv |-> FALSE]
               ELSE [model |-> m3, outcomes |-> ZeroDivOutcomes,
                     called |-> FALSE, zdiv |-> TRUE]
  ELSE [model |-> m4, outcomes |-> {SolveReturn(m4, GridDen(inst))},
        called |-> TRUE, zdiv |-> FALSE]

(***************************************************************************)
(* Input files                                                             *)
(***************************************************************************)
Shapes == {<<1, 1>>, <<1, 2>>, <<2, 1>>, <<2, 2>>}

AllocRows == {<<0, 1, 2, 0>>}

DemandRows == {<<1, 2>>, <<2, 2>>}

OpeningRows == {<<1, 3>>}

CapacityRows == {<<0, 3>>, <<1, 1>>, <<2, 2>>, <<3, 1>>}

TruckRows == {<<0, 1>>, <<1, 1>>, <<2, 0>>}

DistanceRows == {<<1, 1, 1, 1>>, <<2, 0, 2, 0>>}

Take(s, n) == SubSeq(s, 1, n)

WellFormedLines(nc, nf, alloc, dem, open, cap, truck, dist) ==
  << NumLine(<<nc, nf>>), NumLine(Take(alloc, nc * nf)), NumLine(Take(dem, nc)),
     NumLine(Take(open, nf)), NumLine(Take(cap, nf)), NumLine(truck),
     NumLine(Take(dist, nc * nf)) >>

\* the scenario of the specification's testable properties
ScenarioLines ==
  WellFormedLines(2, 2, <<1, 2, 2, 1>>, <<10, 10>>, <<5, 5>>, <<20, 20>>,
                  <<100, 1>>, <<1, 1, 1, 1>>)

BaseLines ==
  {WellFormedLines(sh[1], sh[2], alloc, dem, open, cap, truck, dist) :
     sh \in Shapes, alloc \in AllocRows, dem \in DemandRows, open \in OpeningRows,
     cap \in CapacityRows, truck \in TruckRows, dist \in DistanceRows}

Defects ==
  {[kind |-> "none", line |-> 0], [kind |-> "unreadable", line |-> 0]}
  \cup {[kind |-> k, line |-> n] : k \in {"drop", "extra", "nonnum"}, n \in 1..7}
  \cup {[kind |-> "truncate", line |-> n] : n \in 0..6}

ApplyDefect(lines, d) ==
  CASE d.kind = "none" -> [readable |-> TRUE, lines |-> lines]
    [] d.kind = "unreadable" -> [readable |-> FALSE, lines |-> lines]
    [] d.kind = "truncate" -> [readable |-> TRUE, lines |-> Take(lines, d.line)]
    [] d.kind = "drop" ->
         [readable |-> TRUE,
          lines |-> [lines EXCEPT ![d.line] = Take(@, Len(@) - 1)]]
    [] d.kind = "extra" ->
         [readable |-> TRUE, lines |-> [lines EXCEPT ![d.line] = Append(@, <<"7">>)]]
    [] d.kind = "nonnum" ->
         [readable |-> TRUE, lines |-> [lines EXCEPT ![d.line][1] = <<"x">>]]

Files ==
  {ApplyDefect(lines, d) : lines \in BaseLines, d \in Defects}
  \cup {[readable |-> TRUE, lines |-> ScenarioLines]}

(***************************************************************************)
(* State machine                                                           *)
(***************************************************************************)
NotCalled == [tag |-> "NotCalled"]

Init ==
  /\ file \in Files
  /\ parseResult = NotCalled
  /\ constructed = FALSE
  /\ lpinst = None
  /\ model = NewModel
  /\ results = <<>>
  /\ solverCalls = 0
  /\ zeroDivs = 0

\* a direct call getLPInstance(fileName)
ParseFile ==
  /\ parseResult = NotCalled
  /\ parseResult' = getLPInstance(file)
  /\ UNCHANGED <<file, constructed, lpinst, model, results, solverCalls, zeroDivs>>

\* LPSolver(filename)
NewLPSolver ==
  /\ ~constructed
  /\ constructed' = TRUE
  /\ lpinst' = getLPInstance(file)
  /\ model' = NewModel
  /\ UNCHANGED <<file, parseResult, results, solverCalls, zeroDivs>>

\* one call of solve() on the constructed LPSolver
Solve ==
  /\ constructed
  /\ Len(results) < MaxSolves
  /\ LET run == SolveRun(lpinst, model)
     IN  /\ model' = run.model
         /\ \E r \in run.outcomes : results' = Append(results, r)
         /\ solverCalls' = solverCalls + (IF run.called THEN 1 ELSE 0)
         /\ zeroDivs' = zeroDivs + (IF run.zdiv THEN 1 ELSE 0)
  /\ UNCHANGED <<file, parseResult, constructed, lpinst>>

Next == ParseFile \/ NewLPSolver \/ Solve

Spec == Init /\ [][Next]_vars

(***************************************************************************)
(* Vocabulary of the properties                                            *)
(***************************************************************************)
Parsed == parseResult # NotCalled

\* line 1 holds two integers
HeaderParses(f) ==
  f.readable /\ Len(ReadLine(f, 1)) = 2 /\ AllNumeric(ReadLine(f, 1))

HeaderC(f) == TokVal(ReadLine(f, 1)[1])

HeaderF(f) == TokVal(ReadLine(f, 1)[2])

\* the token count the format requires of line n
RequiredCount(n, nc, nf) ==
  CASE n \in {2, 7} -> nc * nf
    [] n = 3 -> nc
    [] n \in {4, 5} -> nf
    [] n = 6 -> 2

WrongCount(f) ==
  \E n \in 2..7 : Len(ReadLine(f, n)) # RequiredCount(n, HeaderC(f), HeaderF(f))

WellFormedFile(f) ==
  /\ HeaderParses(f)
  /\ Len(f.lines) >= 7
  /\ ~WrongCount(f)
  /\ \A n \in 2..7 : AllNumeric(ReadLine(f, n))

\* row-major flattening of a parsed matrix
Flatten(m, nc, nf) ==
  [k \in 1..(nc * nf) |-> m[((k - 1) \div nf) + 1][((k - 1) % nf) + 1]]

\* an instance whose vectors have the lengths the data model prescribes
Consistent(inst) ==
  /\ inst # None
  /\ Len(inst.demandC) = inst.numCustomers
  /\ Len(inst.openingCostF) = inst.numFacilities
  /\ Len(inst.capacityF) = inst.numFacilities

PositiveDivisors(inst) ==
  /\ inst # None
  /\ inst.truckDistLimit > 0
  /\ \A f \in DOMAIN inst.capacityF : inst.capacityF[f] > 0

Degenerate(inst) ==
  /\ Consistent(inst)
  /\ \/ inst.truckDistLimit = 0
     \/ \E f \in 1..inst.numFacilities : inst.capacityF[f] = 0

\* assignments x[f][c] as numerators over D, and the constraints and the
\* objective as the specification states them
Assignments(inst, D) ==
  [1..inst.numFacilities -> [1..inst.numCustomers -> 0..D]]

RECURSIVE SumOver(_, _, _)
SumOver(n, F(_), k) == IF k > n THEN 0 ELSE F(k) + SumOver(n, F, k + 1)

Served(inst, x, f) ==
  LET T(c) == x[f][c] * inst.demandC[c] IN SumOver(inst.numCustomers, T, 1)

Driven(inst, x, f) ==
  LET T(c) == x[f][c] * inst.distanceCF[c][f] IN SumOver(inst.numCustomers, T, 1)

Billed(inst, x, f) ==
  LET T(c) == x[f][c] * inst.allocCostCF[c][f] IN SumOver(inst.numCustomers, T, 1)

SatisfiesSpec(inst, x, D) ==
  /\ \A c \in 1..inst.numCustomers :
       LET T(f) == x[f][c] IN SumOver(inst.numFacilities, T, 1) = D
  /\ \A f \in 1..inst.numFacilities : Served(inst, x, f) <= inst.capacityF[f] * D
  /\ \A f \in 1..inst.numFacilities :
       Driven(inst, x, f) <= inst.numCustomers * inst.truckDistLimit * D

FeasibleSpec(inst, D) == {x \in Assignments(inst, D) : SatisfiesSpec(inst, x, D)}

RECURSIVE Prod(_)
Prod(s) == IF s = <<>> THEN 1 ELSE Head(s) * Prod(Tail(s))

\* cost of x as a numerator over  D * truckDistLimit * Prod(capacityF)
CostNum(inst, x) ==
  LET P == Prod(inst.capacityF)
      L == inst.truckDistLimit
      T(f) == inst.openingCostF[f] * Served(inst, x, f) * L * (P \div inst.capacityF[f])
              + Billed(inst, x, f) * L * P
              + inst.truckUsageCost * Driven(inst, x, f) * P
  IN  SumOver(inst.numFacilities, T, 1)

MinCost(inst, D) ==
  Rat(SetMin({CostNum(inst, x) : x \in FeasibleSpec(inst, D)}),
      D * inst.truckDistLimit * Prod(inst.capacityF))

TotalDemand(inst) == LET T(c) == inst.demandC[c] IN SumOver(inst.numCustomers, T, 1)

TotalCapacity(inst) == LET T(f) == inst.capacityF[f] IN SumOver(inst.numFacilities, T, 1)

IsNumber(r) == r.tag = "value"

ScenarioInst ==
  LPInstance(2, 2, <<<<1, 2>>, <<2, 1>>>>, <<10, 10>>, <<5, 5>>, <<20, 20>>,
             2, 100, 1, <<<<1, 1>>, <<1, 1>>>>)

\* x[0][0] = 1, x[1][1] = 1, x[0][1] = 0, x[1][0] = 0 on the variables that
\* the first solve call creates, as numerators over D
ScenarioAssignment(D) ==
  [v \in 1..4 |-> IF v \in {XVar(0, 1, 1, 2), XVar(0, 2, 2, 2)} THEN D ELSE 0]

(***************************************************************************)
(* Properties                                                              *)
(***************************************************************************)

\* C1: when line 1 parses and some later line has a token count other than
\* the required one (too few or too many), getLPInstance returns None.
C1_WrongCountsRejected ==
  (Parsed /\ HeaderParses(file) /\ WrongCount(file)) => parseResult = None

\* C2: after any number of solve calls on one LPSolver the submitted model
\* has exactly numFacilities*numCustomers variables and exactly
\* numCustomers + 2*numFacilities constraints.
C2_FreshModelPerSolve ==
  (Consistent(lpinst) /\ PositiveDivisors(lpinst) /\ Len(results) >= 1) =>
     /\ Len(model.vars) = lpinst.numFacilities * lpinst.numCustomers
     /\ Len(model.cts) = lpinst.numCustomers + 2 * lpinst.numFacilities

\* C3: on an instance with a zero capacity or a zero truckDistanceLimit,
\* solve fails with the error of an explicit guard, before any division by
\* the zero value and before the model is submitted to the solver.
C3_DegenerateGuarded ==
  (constructed /\ Degenerate(lpinst)) =>
     /\ zeroDivs = 0
     /\ solverCalls = 0
     /\ \A i \in DOMAIN results : results[i] = Raised("DegenerateInstance")

\* C4: for a well-formed file the parsed allocation-cost and distance
\* matrices have shape C x F, element (c, f) is the token at flat position
\* c*F + f of line 2 (line 7), and flattening each matrix row-major gives
\* back the values of its line.
C4_RowMajorRoundTrip ==
  (Parsed /\ WellFormedFile(file)) =>
     /\ parseResult.tag = "LPInstance"
     /\ LET nc == HeaderC(file)
            nf == HeaderF(file)
            raw2 == FloatList(ReadLine(file, 2))
            raw7 == FloatList(ReadLine(file, 7))
            A == parseResult.allocCostCF
            B == parseResult.distanceCF
        IN  /\ DOMAIN A = 1..nc /\ DOMAIN B = 1..nc
            /\ \A c \in 1..nc : DOMAIN A[c] = 1..nf /\ DOMAIN B[c] = 1..nf
            /\ \A c \in 0..(nc - 1), f \in 0..(nf - 1) :
                 /\ A[c + 1][f + 1] = raw2[c * nf + f + 1]
                 /\ B[c + 1][f + 1] = raw7[c * nf + f + 1]
            /\ Flatten(A, nc, nf) = raw2
            /\ Flatten(B, nc, nf) = raw7

C4_Witness ==
  /\ Parsed /\ WellFormedFile(file)
  /\ HeaderC(file) = 2 /\ HeaderF(file) = 2
  /\ parseResult.tag = "LPInstance"
  /\ parseResult.allocCostCF[1][2] # parseResult.allocCostCF[2][1]
  /\ parseResult.distanceCF[1][2] # parseResult.distanceCF[2][1]

\* C5: on an instance whose total capacity is strictly below its total
\* demand (capacities and truckDistanceLimit positive) every solve call
\* returns -1.
C5_InfeasibleReturnsMinusOne ==
  (Consistent(lpinst) /\ PositiveDivisors(lpinst)
     /\ TotalCapacity(lpinst) < TotalDemand(lpinst)) =>
     \A i \in DOMAIN results : results[i] = NoSolution

C5_Witness ==
  /\ Consistent(lpinst) /\ PositiveDivisors(lpinst)
  /\ TotalCapacity(lpinst) < TotalDemand(lpinst)
  /\ lpinst.numFacilities = 2
  /\ Len(results) >= 1
  /\ results[1] = NoSolution

\* C6: with positive capacities and truckDistanceLimit the first solve call
\* returns -1 exactly when no assignment satisfies the coverage, capacity
\* and truck-distance constraints, and otherwise the minimum of the
\* three-term cost over the feasible assignments, which is >= 0.
C6_FirstSolveIsMinimum ==
  (Consistent(lpinst) /\ PositiveDivisors(lpinst) /\ Len(results) >= 1) =>
     LET D == GridDen(lpinst)
         feasible == FeasibleSpec(lpinst, D) # {}
     IN  /\ (results[1] = NoSolution) <=> ~feasible
         /\ feasible => /\ results[1] = MinCost(lpinst, D)
                        /\ results[1].num >= 0

C6_Witness ==
  /\ Consistent(lpinst) /\ PositiveDivisors(lpinst)
  /\ lpinst.numCustomers = 2 /\ lpinst.numFacilities = 2
  /\ Len(results) >= 1
  /\ IsNumber(results[1])
  /\ results[1].num > 0 /\ results[1].den > 1

\* C7: when getLPInstance yields None for the file, an LPSolver built from
\* it holds no instance, and solve raises to its caller without adding a
\* variable, a constraint or an objective, without invoking the solver and
\* without returning a value.
C7_FailedParseNeverFormulated ==
  (constructed /\ getLPInstance(file) = None) =>
     /\ lpinst = None
     /\ model = NewModel
     /\ solverCalls = 0
     /\ \A i \in DOMAIN results : results[i] = Raised("AttributeError")

C7_Witness ==
  /\ constructed /\ lpinst = None
  /\ file.readable
  /\ Len(results) >= 1
  /\ results[1] = Raised("AttributeError")

\* C8: for an unreadable file, a non-numeric token on any line, or a file
\* of fewer than 7 lines (numCustomers >= 1 and numFacilities >= 1),
\* getLPInstance returns None.
C8_ParserCatchesAll ==
  (Parsed /\ \/ ~file.readable
             \/ \E n \in 1..7 : ~AllNumeric(ReadLine(file, n))
             \/ /\ Len(file.lines) < 7
                /\ HeaderParses(file) => (HeaderC(file) >= 1 /\ HeaderF(file) >= 1))
  => parseResult = None

C8_Witness ==
  /\ Parsed
  /\ file.readable /\ Len(file.lines) = 6
  /\ \A n \in 1..6 : AllNumeric(ReadLine(file, n))
  /\ HeaderParses(file) /\ ~(\E n \in 2..6 : Len(ReadLine(file, n))
                                # RequiredCount(n, HeaderC(file), HeaderF(file)))
  /\ parseResult = None

\* C9: on the scenario instance the model built by solve is feasible, its
\* only optimal assignment is x[0][0] = x[1][1] = 1, x[0][1] = x[1][0] = 0,
\* and solve returns a positive objective value, not -1.
C9_Scenario ==
  (lpinst = ScenarioInst /\ Len(results) >= 1) =>
     /\ IsNumber(results[1]) /\ results[1].num > 0 /\ results[1] # NoSolution
     /\ Len(results) = 1 =>
          /\ ModelFeasible(model, GridDen(lpinst))
          /\ DOMAIN model.vars = 1..4
          /\ Optimal(model, 1..4, GridDen(lpinst))
               = {ScenarioAssignment(GridDen(lpinst))}

C9_Witness ==
  /\ lpinst = ScenarioInst
  /\ Len(results) = 1
  /\ results[1] = Rat(351, 50)

\* C10: on a parsed instance with positive capacities and
\* truckDistanceLimit, the k-th solve call returns what the first returned.
C10_RepeatedSolveSameResult ==
  (constructed /\ PositiveDivisors(lpinst)) =>
     \A k \in 2..Len(results) : results[k] = results[1]

C10_Witness ==
  /\ constructed /\ PositiveDivisors(lpinst)
  /\ Len(results) >= 2
  /\ IsNumber(results[2])
  /\ results[2].num > 0
  /\ Len(model.vars) = 2 * lpinst.numFacilities * lpinst.numCustomers

====
